---- MODULE Spec2Model ----
(***************************************************************************)
(* Model of the dma crate (src/src/lib.rs): divisibility, gcd, lcm, the    *)
(* extended Euclidean algorithm and the two Euclidean iterators.           *)
(*                                                                         *)
(* The crate computes on i64.  The model keeps two's-complement arithmetic *)
(* but on a word of Width bits, so that the whole type, its minimum value  *)
(* included, can be enumerated.  Arithmetic that overflows panics when the *)
(* crate is built with overflow checks (debug profile) and wraps when it   *)
(* is built without them (release profile); the profile is a state         *)
(* variable chosen in Init.  i64::abs of the minimum value follows the     *)
(* same rule; `/` and `%` panic on MIN / -1 and on a zero divisor in both  *)
(* profiles.                                                               *)
(***************************************************************************)
EXTENDS Integers, Sequences, FiniteSets, TLC

VARIABLES
    in_a,            \* first argument handed to every call and constructor
    in_b,            \* second argument
    overflow_checks, \* TRUE: built with overflow checks (debug), FALSE: release
    call,            \* name of the free function called last ("none" before any call)
    ret,             \* what that call returned, or Panic
    git,             \* GcdIterator.i
    gret,            \* what the last GcdIterator::next returned
    eit,             \* GcdExtendedIterator.i (Panic when the constructor panicked)
    eret             \* what the last GcdExtendedIterator::next returned

vars == <<in_a, in_b, overflow_checks, call, ret, git, gret, eit, eret>>

---------------------------------------------------------------------------
(* The integer type *)

\* Word size of the modelled integer type (i64 scaled down).
Width == 5

MIN == -(2^(Width - 1))
MAX == 2^(Width - 1) - 1
I64 == MIN..MAX

\* Two's-complement wrap of a mathematical integer into the type.
wrap(n) == ((n - MIN) % (2^Width)) + MIN

\* Magnitude of a mathematical integer.
Mag(n) == IF n < 0 THEN -n ELSE n

\* Integer division truncating toward zero, as `/` on i64 (y # 0).
TDiv(x, y) ==
    IF (x < 0) = (y < 0) THEN Mag(x) \div Mag(y) ELSE -(Mag(x) \div Mag(y))

\* Remainder with the sign of the dividend, as `%` on i64 (y # 0).
TRem(x, y) == x - y * TDiv(x, y)

\* `/` and `%` panic in every build profile on a zero divisor and on MIN / -1.
div_panics(x, y) == y = 0 \/ (x = MIN /\ y = -1)

Ok(v) == [tag |-> "Ok", val |-> v]
Panic == [tag |-> "Panic"]

\* Whether an arithmetic step whose mathematical results are the set s panics.
overflow_panics(s) == overflow_checks /\ ~(s \subseteq I64)

\* i64::abs: the magnitude, except for MIN: panic with overflow checks, MIN without.
abs(x) ==
    IF x = MIN
    THEN IF overflow_checks THEN Panic ELSE Ok(MIN)
    ELSE Ok(Mag(x))

---------------------------------------------------------------------------
(* Free functions *)

\* Mutant: the remainder is taken with the operands exchanged.
divides_swapped_operands(a, b) ==
    IF a # 0
    THEN IF div_panics(a, b) THEN Panic ELSE Ok(TRem(a, b) = 0)
    ELSE Ok(TRUE)

divides(a, b) ==
    IF a # 0
    THEN IF div_panics(b, a) THEN Panic ELSE Ok(TRem(b, a) = 0)
    ELSE Ok(TRUE)

\* Mutant: the loop stops one division early.
RECURSIVE gcd_euclid_stops_early(_, _)
gcd_euclid_stops_early(a, b) ==
    IF b = 0 THEN Ok(a)
    ELSE IF div_panics(a, b) THEN Panic
    ELSE IF TRem(a, b) = 0 THEN Ok(a)
    ELSE gcd_euclid_stops_early(b, TRem(a, b))

RECURSIVE gcd_euclid(_, _)
gcd_euclid(a, b) ==
    IF b = 0 THEN Ok(a)
    ELSE IF div_panics(a, b) THEN Panic
    ELSE gcd_euclid(b, TRem(a, b))

gcd_noabs(a, b) ==
    IF a = 0 /\ b = 0 THEN Ok(0)
    ELSE IF b = 0 THEN Ok(a)
    ELSE IF a = 0 THEN Ok(b)
    ELSE IF a > b THEN gcd_euclid(a, b)
    ELSE IF a < b THEN gcd_euclid(b, a)
    ELSE Ok(a)

\* Mutant: only the first argument is replaced by its magnitude.
gcd_abs_of_a_only(a, b) ==
    IF abs(a).tag = "Panic" THEN Panic
    ELSE gcd_noabs(abs(a).val, b)

gcd(a, b) ==
    IF abs(a).tag = "Panic" \/ abs(b).tag = "Panic" THEN Panic
    ELSE gcd_noabs(abs(a).val, abs(b).val)

\* Mutant: the product is returned without the division by the gcd.
lcm_without_division(a, b) ==
    IF a = 0 \/ b = 0 THEN Ok(0)
    ELSE IF abs(a).tag = "Panic" \/ abs(b).tag = "Panic" THEN Panic
    ELSE LET aa == abs(a).val
             bb == abs(b).val
         IN  IF overflow_panics({aa * bb}) THEN Panic
             ELSE Ok(wrap(aa * bb))

lcm(a, b) ==
    IF a = 0 \/ b = 0 THEN Ok(0)
    ELSE IF abs(a).tag = "Panic" \/ abs(b).tag = "Panic" THEN Panic
    ELSE LET aa == abs(a).val
             bb == abs(b).val
             g  == gcd_noabs(aa, bb)
         IN  IF overflow_panics({aa * bb}) \/ g.tag = "Panic" THEN Panic
             ELSE IF div_panics(wrap(aa * bb), g.val) THEN Panic
             ELSE Ok(TDiv(wrap(aa * bb), g.val))

GcdExtendedResult(g, x0, y0, x1, y1) ==
    [tag |-> "Ok", gcd |-> g, x0 |-> x0, y0 |-> y0, x1 |-> x1, y1 |-> y1]

\* The while loop of gcd_extended_bezout, one iteration per unfolding.
RECURSIVE bezout_loop(_, _, _, _, _, _)
bezout_loop(a, b, a0, a1, b0, b1) ==
    IF b = 0 THEN GcdExtendedResult(a, a0, b0, a1, b1)
    ELSE IF div_panics(a, b) THEN Panic
    ELSE LET q   == TDiv(a, b)
             bq  == b * q
             r   == a - wrap(bq)
             qa1 == q * a1
             na1 == a0 - wrap(qa1)
             qb1 == q * b1
             nb1 == b0 - wrap(qb1)
         IN  IF overflow_panics({bq, r, qa1, na1, qb1, nb1}) THEN Panic
             ELSE bezout_loop(b, wrap(r), a1, wrap(na1), b1, wrap(nb1))

gcd_extended_bezout(a, b) == bezout_loop(a, b, 1, 0, 0, 1)

swap_xy(res) ==
    IF res.tag = "Panic" THEN Panic
    ELSE GcdExtendedResult(res.gcd, res.y0, res.x0, res.y1, res.x1)

\* Mutant: the a < b branch forgets to swap the coefficient pairs back.
gcd_extended_noabs_no_swap(a, b) ==
    IF a = 0 /\ b = 0 THEN GcdExtendedResult(0, 0, 0, 0, 0)
    ELSE IF b = 0 THEN GcdExtendedResult(a, 1, 0, 0, 0)
    ELSE IF a = 0 THEN GcdExtendedResult(b, 0, 1, 0, 0)
    ELSE IF a > b THEN gcd_extended_bezout(a, b)
    ELSE IF a < b THEN gcd_extended_bezout(b, a)
    ELSE GcdExtendedResult(a, 1, 0, -1, 1)

\* Mutant: the a < b branch swaps (x0, y0) but not (x1, y1).
gcd_extended_noabs_swaps_x0y0_only(a, b) ==
    IF a = 0 /\ b = 0 THEN GcdExtendedResult(0, 0, 0, 0, 0)
    ELSE IF b = 0 THEN GcdExtendedResult(a, 1, 0, 0, 0)
    ELSE IF a = 0 THEN GcdExtendedResult(b, 0, 1, 0, 0)
    ELSE IF a > b THEN gcd_extended_bezout(a, b)
    ELSE IF a < b
         THEN LET res == gcd_extended_bezout(b, a)
              IN  IF res.tag = "Panic" THEN Panic
                  ELSE GcdExtendedResult(res.gcd, res.y0, res.x0, res.x1, res.y1)
    ELSE GcdExtendedResult(a, 1, 0, -1, 1)

\* Mutant: the degenerate branches report the zero argument as the gcd.
gcd_extended_noabs_zero_gcd(a, b) ==
    IF a = 0 /\ b = 0 THEN GcdExtendedResult(0, 0, 0, 0, 0)
    ELSE IF b = 0 THEN GcdExtendedResult(b, 1, 0, 0, 0)
    ELSE IF a = 0 THEN GcdExtendedResult(a, 0, 1, 0, 0)
    ELSE IF a > b THEN gcd_extended_bezout(a, b)
    ELSE IF a < b THEN swap_xy(gcd_extended_bezout(b, a))
    ELSE GcdExtendedResult(a, 1, 0, -1, 1)

\* Mutant: the equal-arguments branch returns a zero kernel vector, as the
\* zero-argument branches do.
gcd_extended_noabs_equal_zero_kernel(a, b) ==
    IF a = 0 /\ b = 0 THEN GcdExtendedResult(0, 0, 0, 0, 0)
    ELSE IF b = 0 THEN GcdExtendedResult(a, 1, 0, 0, 0)
    ELSE IF a = 0 THEN GcdExtendedResult(b, 0, 1, 0, 0)
    ELSE IF a > b THEN gcd_extended_bezout(a, b)
    ELSE IF a < b THEN swap_xy(gcd_extended_bezout(b, a))
    ELSE GcdExtendedResult(a, 1, 0, 0, 0)

gcd_extended_noabs(a, b) ==
    IF a = 0 /\ b = 0 THEN GcdExtendedResult(0, 0, 0, 0, 0)
    ELSE IF b = 0 THEN GcdExtendedResult(a, 1, 0, 0, 0)
    ELSE IF a = 0 THEN GcdExtendedResult(b, 0, 1, 0, 0)
    ELSE IF a > b THEN gcd_extended_bezout(a, b)
    ELSE IF a < b THEN swap_xy(gcd_extended_bezout(b, a))
    ELSE GcdExtendedResult(a, 1, 0, -1, 1)

\* Mutant: a negative argument flips its primary coefficient only.
gcd_extended_flips_x0_y0_only(a, b) ==
    IF abs(a).tag = "Panic" \/ abs(b).tag = "Panic" THEN Panic
    ELSE LET res == gcd_extended_noabs(abs(a).val, abs(b).val)
         IN  IF res.tag = "Panic" THEN Panic
             ELSE LET x0 == IF a < 0 THEN -res.x0 ELSE res.x0
                      y0 == IF b < 0 THEN -res.y0 ELSE res.y0
                  IN  IF overflow_panics({x0, y0}) THEN Panic
                      ELSE GcdExtendedResult(res.gcd, wrap(x0), wrap(y0),
                                             res.x1, res.y1)

gcd_extended(a, b) ==
    IF abs(a).tag = "Panic" \/ abs(b).tag = "Panic" THEN Panic
    ELSE LET res == gcd_extended_noabs(abs(a).val, abs(b).val)
         IN  IF res.tag = "Panic" THEN Panic
             ELSE LET x0 == IF a < 0 THEN -res.x0 ELSE res.x0
                      x1 == IF a < 0 THEN -res.x1 ELSE res.x1
                      y0 == IF b < 0 THEN -res.y0 ELSE res.y0
                      y1 == IF b < 0 THEN -res.y1 ELSE res.y1
                  IN  IF overflow_panics({x0, x1, y0, y1}) THEN Panic
                      ELSE GcdExtendedResult(res.gcd, wrap(x0), wrap(y0),
                                             wrap(x1), wrap(y1))

---------------------------------------------------------------------------
(* Iterators *)

None == [tag |-> "None"]
NotCalled == [tag |-> "NotCalled"]

GcdIteration(a, b) == [tag |-> "Some", a |-> a, b |-> b]

GcdIterator_new(a, b) == GcdIteration(a, b)

\* Mutant: the remainder arm keeps a where the code moves b into its place.
GcdIterator_advance_keeps_a(i) ==
    IF i.tag # "Some" THEN Ok(i)
    ELSE IF i.a < 0 \/ i.b < 0
         THEN IF abs(i.a).tag = "Panic" \/ abs(i.b).tag = "Panic" THEN Panic
              ELSE Ok(GcdIteration(abs(i.a).val, abs(i.b).val))
    ELSE IF i.b = 0 THEN Ok(None)
    ELSE IF i.a < i.b THEN Ok(GcdIteration(i.b, i.a))
    ELSE IF div_panics(i.a, i.b) THEN Panic
    ELSE Ok(GcdIteration(i.a, TRem(i.a, i.b)))

\* Mutant: the swap arm is taken on a > b where the code tests a < b.
GcdIterator_advance_swaps_on_greater(i) ==
    IF i.tag # "Some" THEN Ok(i)
    ELSE IF i.a < 0 \/ i.b < 0
         THEN IF abs(i.a).tag = "Panic" \/ abs(i.b).tag = "Panic" THEN Panic
              ELSE Ok(GcdIteration(abs(i.a).val, abs(i.b).val))
    ELSE IF i.b = 0 THEN Ok(None)
    ELSE IF i.a > i.b THEN Ok(GcdIteration(i.b, i.a))
    ELSE IF div_panics(i.a, i.b) THEN Panic
    ELSE Ok(GcdIteration(i.b, TRem(i.a, i.b)))

\* Mutant: the normalization arm is taken on b <= 0 where the code tests b < 0.
GcdIterator_advance_normalizes_zero_b(i) ==
    IF i.tag # "Some" THEN Ok(i)
    ELSE IF i.a < 0 \/ i.b <= 0
         THEN IF abs(i.a).tag = "Panic" \/ abs(i.b).tag = "Panic" THEN Panic
              ELSE Ok(GcdIteration(abs(i.a).val, abs(i.b).val))
    ELSE IF i.b = 0 THEN Ok(None)
    ELSE IF i.a < i.b THEN Ok(GcdIteration(i.b, i.a))
    ELSE IF div_panics(i.a, i.b) THEN Panic
    ELSE Ok(GcdIteration(i.b, TRem(i.a, i.b)))

\* The value GcdIterator::next assigns to self.i, or Panic.
GcdIterator_advance(i) ==
    IF i.tag # "Some" THEN Ok(i)
    ELSE IF i.a < 0 \/ i.b < 0
         THEN IF abs(i.a).tag = "Panic" \/ abs(i.b).tag = "Panic" THEN Panic
              ELSE Ok(GcdIteration(abs(i.a).val, abs(i.b).val))
    ELSE IF i.b = 0 THEN Ok(None)
    ELSE IF i.a < i.b THEN Ok(GcdIteration(i.b, i.a))
    ELSE IF div_panics(i.a, i.b) THEN Panic
    ELSE Ok(GcdIteration(i.b, TRem(i.a, i.b)))

GcdExtendedIteration(a, b, a0, a1, b0, b1, q) ==
    [tag |-> "Some", a |-> a, b |-> b, a0 |-> a0, a1 |-> a1,
     b0 |-> b0, b1 |-> b1, q |-> q]

GcdExtendedIteration_new(a, b) ==
    IF abs(a).tag = "Panic" \/ abs(b).tag = "Panic" THEN Panic
    ELSE LET aa == abs(a).val
             bb == abs(b).val
         IN  IF aa < bb
             THEN GcdExtendedIteration(bb, aa, 1, 0, 0, 1, 0)
             ELSE GcdExtendedIteration(aa, bb, 1, 0, 0, 1, 0)

GcdExtendedIterator_new(a, b) == GcdExtendedIteration_new(a, b)

\* Mutant: the b1 update reads a1 where the code reads b1.
GcdExtendedIterator_advance_b1_from_a1(i) ==
    IF i.tag # "Some" THEN Ok(i)
    ELSE IF i.b = 0 THEN Ok(None)
    ELSE IF div_panics(i.a, i.b) THEN Panic
    ELSE LET q   == TDiv(i.a, i.b)
             bq  == i.b * q
             r   == i.a - wrap(bq)
             qa1 == q * i.a1
             na1 == i.a0 - wrap(qa1)
             nb1 == i.b0 - wrap(qa1)
         IN  IF overflow_panics({bq, r, qa1, na1, nb1}) THEN Panic
             ELSE Ok(GcdExtendedIteration(i.b, wrap(r), i.a1, wrap(na1),
                                          i.b1, wrap(nb1), q))

\* The value GcdExtendedIterator::next assigns to self.i, or Panic.
GcdExtendedIterator_advance(i) ==
    IF i.tag # "Some" THEN Ok(i)
    ELSE IF i.b = 0 THEN Ok(None)
    ELSE IF div_panics(i.a, i.b) THEN Panic
    ELSE LET q   == TDiv(i.a, i.b)
             bq  == i.b * q
             r   == i.a - wrap(bq)
             qa1 == q * i.a1
             na1 == i.a0 - wrap(qa1)
             qb1 == q * i.b1
             nb1 == i.b0 - wrap(qb1)
         IN  IF overflow_panics({bq, r, qa1, na1, qb1, nb1}) THEN Panic
             ELSE Ok(GcdExtendedIteration(i.b, wrap(r), i.a1, wrap(na1),
                                          i.b1, wrap(nb1), q))

---------------------------------------------------------------------------
(* State machine *)

Init ==
    /\ in_a \in I64
    /\ in_b \in I64
    /\ overflow_checks \in BOOLEAN
    /\ call = "none"
    /\ ret = NotCalled
    /\ git = GcdIterator_new(in_a, in_b)
    /\ gret = NotCalled
    /\ eit = GcdExtendedIterator_new(in_a, in_b)
    /\ eret = NotCalled

Call_divides ==
    /\ call' = "divides"
    /\ ret' = divides(in_a, in_b)
    /\ UNCHANGED <<in_a, in_b, overflow_checks, git, gret, eit, eret>>

Call_gcd ==
    /\ call' = "gcd"
    /\ ret' = gcd(in_a, in_b)
    /\ UNCHANGED <<in_a, in_b, overflow_checks, git, gret, eit, eret>>

Call_lcm ==
    /\ call' = "lcm"
    /\ ret' = lcm(in_a, in_b)
    /\ UNCHANGED <<in_a, in_b, overflow_checks, git, gret, eit, eret>>

Call_gcd_extended ==
    /\ call' = "gcd_extended"
    /\ ret' = gcd_extended(in_a, in_b)
    /\ UNCHANGED <<in_a, in_b, overflow_checks, git, gret, eit, eret>>

\* GcdIterator::next: a panic unwinds before self.i is assigned.  A call that
\* returns the item it returned before and leaves self.i as it was (built
\* without overflow checks, a state holding MIN normalizes to itself) is a
\* stuttering step: the consumer is handed that item again, forever.
GcdIterator_next ==
    /\ gret.tag # "Panic"
    /\ LET nxt == GcdIterator_advance(git)
       IN  IF nxt.tag = "Panic"
           THEN git' = git /\ gret' = Panic
           ELSE git' = nxt.val /\ gret' = git
    /\ UNCHANGED <<in_a, in_b, overflow_checks, call, ret, eit, eret>>

\* GcdExtendedIterator::next, on an iterator whose constructor returned.
GcdExtendedIterator_next ==
    /\ eit.tag # "Panic"
    /\ eret.tag # "Panic"
    /\ LET nxt == GcdExtendedIterator_advance(eit)
       IN  IF nxt.tag = "Panic"
           THEN eit' = eit /\ eret' = Panic
           ELSE eit' = nxt.val /\ eret' = eit
    /\ UNCHANGED <<in_a, in_b, overflow_checks, call, ret, git, gret>>

Next ==
    \/ Call_divides
    \/ Call_gcd
    \/ Call_lcm
    \/ Call_gcd_extended

\* The free functions, called in any order on the chosen arguments.
Spec == Init /\ [][Next]_vars

\* A consumer draining a GcdIterator built from the chosen arguments.
SpecGcdIterator == Init /\ [][GcdIterator_next]_vars

\* The same consumer, which keeps calling next for as long as it is not done.
FairSpecGcdIterator == SpecGcdIterator /\ WF_vars(GcdIterator_next)

\* A consumer draining a GcdExtendedIterator built from the chosen arguments.
SpecGcdExtendedIterator == Init /\ [][GcdExtendedIterator_next]_vars

\* The same consumer, which keeps calling next for as long as it is not done.
FairSpecGcdExtendedIterator ==
    SpecGcdExtendedIterator /\ WF_vars(GcdExtendedIterator_next)

\* Both iterators, built from the same arguments and drained independently.
NextIterators ==
    \/ GcdIterator_next
    \/ GcdExtendedIterator_next

SpecIterators == Init /\ [][NextIterators]_vars

---------------------------------------------------------------------------
(* Properties *)

\* d divides n over the mathematical integers: n = k * d for some integer k.
MathDivides(d, n) == \E k \in -Mag(n)..Mag(n) : n = k * d

\* s is r with the roles of the two arguments exchanged (both panic, or both
\* return with the same gcd and the x and y coefficients swapped).
IsSwapOf(r, s) ==
    /\ r.tag = s.tag
    /\ r.tag = "Ok" =>
         s = GcdExtendedResult(r.gcd, r.y0, r.x0, r.y1, r.x1)

\* C1: for all a, b whose magnitude the type can hold (no intermediate then
\* overflows: the call returns in both build profiles), r = gcd_extended(a, b)
\* satisfies r.gcd = r.x0*a + r.y0*b and 0 = r.x1*a + r.y1*b, zero,
\* equal-magnitude and negative arguments included.
C1_Bezout ==
    (call = "gcd_extended" /\ in_a # MIN /\ in_b # MIN) =>
        /\ ret.tag = "Ok"
        /\ ret.gcd = ret.x0 * in_a + ret.y0 * in_b
        /\ 0 = ret.x1 * in_a + ret.y1 * in_b

C1_Witness ==
    /\ call = "gcd_extended" /\ in_a = -6 /\ in_b = 10
    /\ ret = GcdExtendedResult(2, -2, -1, 5, 3)

\* C2 (as claimed): for all nonzero a, b of the type, gcd(a, b) returns a
\* value that divides a and b, and no larger integer divides both
\* (brute-force scan of every value of the type).
C2_GreatestCommonDivisor ==
    (call = "gcd" /\ in_a # 0 /\ in_b # 0) =>
        /\ ret.tag = "Ok"
        /\ MathDivides(ret.val, in_a)
        /\ MathDivides(ret.val, in_b)
        /\ \A d \in I64 :
             d > ret.val => ~(MathDivides(d, in_a) /\ MathDivides(d, in_b))

\* C2, on the arguments whose magnitude the type can hold: there gcd(a, b)
\* is the greatest common divisor.
C2_GreatestCommonDivisorRepresentable ==
    (in_a # MIN /\ in_b # MIN) => C2_GreatestCommonDivisor

C2_Witness ==
    call = "gcd" /\ in_a = -12 /\ in_b = 9 /\ ret = Ok(3)

\* C3 (as claimed): for every pair (a, b) of the type, the minimum value
\* included, gcd(a, b) returns a value >= 0, which is 0 exactly when a = 0
\* and b = 0.
C3_NonNegative ==
    call = "gcd" =>
        /\ ret.tag = "Ok"
        /\ ret.val >= 0
        /\ (ret.val = 0) <=> (in_a = 0 /\ in_b = 0)

\* C4 (as claimed): for all a, b, gcd_extended(b, a) is gcd_extended(a, b)
\* with (x0, y0) and (x1, y1) swapped and the same gcd (stated here on the
\* arguments whose magnitude the type can hold, where nothing overflows).
C4_SwapSymmetry ==
    (call = "gcd_extended" /\ in_a # MIN /\ in_b # MIN) =>
        IsSwapOf(ret, gcd_extended(in_b, in_a))

\* C4 (amended): the swap symmetry holds for all a, b with |a| # |b|, and
\* for a = b = 0.
C4_SwapSymmetryUnequal ==
    (call = "gcd_extended" /\ (Mag(in_a) # Mag(in_b) \/ in_a = 0)) =>
        IsSwapOf(ret, gcd_extended(in_b, in_a))

C4_Witness ==
    /\ call = "gcd_extended" /\ in_a = 10 /\ in_b = 6
    /\ ret = GcdExtendedResult(2, -1, 2, 3, -5)
    /\ gcd_extended(in_b, in_a) = GcdExtendedResult(2, 2, -1, -5, 3)

\* C5 (as claimed): for every seed of the type, the minimum value included,
\* a consumer that keeps calling GcdIterator::next is eventually handed None,
\* and the item handed out just before None has b = 0.
C5_Terminates ==
    /\ <>(gret = None)
    /\ [][(gret.tag = "Some" /\ gret' = None) => gret.b = 0]_vars

\* C6 (as claimed): with (A, B) the a, b of the first state of the extended
\* iterator, every state it yields has a = a0*A + b0*B and b = a1*A + b1*B.
C6_StepInvariant ==
    eret.tag = "Some" =>
        LET first == GcdExtendedIteration_new(in_a, in_b)
        IN  /\ eret.a = eret.a0 * first.a + eret.b0 * first.b
            /\ eret.b = eret.a1 * first.a + eret.b1 * first.b

\* C6, on the seeds whose magnitude the type can hold: there the invariant
\* holds over the integers; on every seed it holds in the type's wrapping
\* arithmetic.
C6_StepInvariantRepresentable ==
    eret.tag = "Some" =>
        LET first == GcdExtendedIteration_new(in_a, in_b)
        IN  /\ (in_a # MIN /\ in_b # MIN) => C6_StepInvariant
            /\ eret.a = wrap(eret.a0 * first.a + eret.b0 * first.b)
            /\ eret.b = wrap(eret.a1 * first.a + eret.b1 * first.b)

C6_Witness ==
    /\ in_a = -9 /\ in_b = -12
    /\ eret = GcdExtendedIteration(3, 0, 1, -3, -1, 4, 3)

\* C7 (as claimed): for every pair (a, b) of the type, the minimum value
\* included, divides(a, b) returns a boolean without any arithmetic fault:
\* TRUE when a = 0, and whether b mod a = 0 otherwise.
C7_Total ==
    call = "divides" =>
        /\ ret.tag = "Ok"
        /\ ret.val = (in_a = 0 \/ MathDivides(in_a, in_b))

C9_SameGcd ==
    call = "gcd_extended" =>
        LET g == gcd(in_a, in_b)
        IN  /\ ret.tag = g.tag
            /\ ret.tag = "Ok" => ret.gcd = g.val

C9_Witness ==
    /\ call = "gcd_extended" /\ in_a = -4 /\ in_b = 0
    /\ ret.tag = "Ok" /\ ret.gcd = 4 /\ gcd(in_a, in_b) = Ok(4)

\* C10: for all a, b other than the minimum value, gcd_extended(-a, b) has
\* the gcd, y0 and y1 of gcd_extended(a, b) and its x0 and x1 negated, and
\* gcd_extended(a, -b) has its gcd, x0 and x1 and its y0 and y1 negated.
C10_SignPropagation ==
    (call = "gcd_extended" /\ in_a # MIN /\ in_b # MIN) =>
        /\ ret.tag = "Ok"
        /\ gcd_extended(-in_a, in_b) =
             GcdExtendedResult(ret.gcd, -ret.x0, ret.y0, -ret.x1, ret.y1)
        /\ gcd_extended(in_a, -in_b) =
             GcdExtendedResult(ret.gcd, ret.x0, -ret.y0, ret.x1, -ret.y1)

C10_Witness ==
    /\ call = "gcd_extended" /\ in_a = 9 /\ in_b = 12
    /\ ret = GcdExtendedResult(3, -1, 1, 4, -3)
    /\ gcd_extended(in_a, -in_b) = GcdExtendedResult(3, -1, -1, 4, 3)

\* C11: for all a, b other than the minimum value, gcd(a, b) returns, and
\* gcd(b, a), gcd(-a, b), gcd(a, -b) and gcd(-a, -b) return the same value.
C11_OrderAndSignInvariance ==
    (call = "gcd" /\ in_a # MIN /\ in_b # MIN) =>
        /\ ret.tag = "Ok"
        /\ gcd(in_b, in_a) = ret
        /\ gcd(-in_a, in_b) = ret
        /\ gcd(in_a, -in_b) = ret
        /\ gcd(-in_a, -in_b) = ret

C11_Witness ==
    /\ call = "gcd" /\ in_a = 10 /\ in_b = -14 /\ ret = Ok(2)
    /\ gcd(14, -10) = Ok(2)

\* C12 (as claimed): lcm(a, 0) = 0 and lcm(0, b) = 0 for all a, b; for all
\* nonzero a, b whose product a*b is a value of the type, lcm(a, b) returns
\* and lcm(a, b) * gcd(a, b) = |a*b| (stated here on arguments other than
\* the minimum value).
C12_LcmTimesGcd ==
    (call = "lcm" /\ in_a # MIN /\ in_b # MIN) =>
        /\ (in_a = 0 \/ in_b = 0) => ret = Ok(0)
        /\ (in_a # 0 /\ in_b # 0 /\ in_a * in_b \in I64) =>
             /\ ret.tag = "Ok"
             /\ ret.val * gcd(in_a, in_b).val = Mag(in_a * in_b)

\* C12 (amended): lcm(a, 0) = 0 and lcm(0, b) = 0 for all a, b of the type;
\* for all nonzero a, b whose product of magnitudes |a|*|b| is a value of
\* the type, lcm(a, b) returns and lcm(a, b) * gcd(a, b) = |a*b|.
C12_LcmTimesGcdMagnitudeFits ==
    call = "lcm" =>
        /\ (in_a = 0 \/ in_b = 0) => ret = Ok(0)
        /\ (in_a # 0 /\ in_b # 0 /\ Mag(in_a * in_b) \in I64) =>
             /\ ret.tag = "Ok"
             /\ gcd(in_a, in_b).tag = "Ok"
             /\ ret.val * gcd(in_a, in_b).val = Mag(in_a * in_b)

C12_Witness ==
    /\ call = "lcm" /\ in_a = -6 /\ in_b = 2 /\ ret = Ok(6)
    /\ gcd(in_a, in_b) = Ok(2)

\* The successor the transition rule of C13 gives a yielded state s, over
\* the mathematical integers.
C13_Successor(s) ==
    IF s.a < 0 \/ s.b < 0 THEN GcdIteration(Mag(s.a), Mag(s.b))
    ELSE IF s.b = 0 THEN None
    ELSE IF s.a < s.b THEN GcdIteration(s.b, s.a)
    ELSE GcdIteration(s.b, s.a % s.b)

\* One call of GcdIterator::next as C13 describes it: the first call returns
\* the raw seed; the call after a yielded state returns that state's
\* successor; an item with a negative component is returned by the first
\* call only; the item returned after a swap is not itself due for a swap.
C13_Step ==
    /\ gret = NotCalled => gret' = GcdIteration(in_a, in_b)
    /\ gret.tag = "Some" => gret' = C13_Successor(gret)
    /\ (gret'.tag = "Some" /\ (gret'.a < 0 \/ gret'.b < 0)) => gret = NotCalled
    /\ (gret.tag = "Some" /\ gret.a >= 0 /\ gret.b > 0 /\ gret.a < gret.b) =>
         (gret'.tag = "Some" /\ gret'.a >= gret'.b)

\* C13 (as claimed): every call of GcdIterator::next, on every seed of the
\* type, follows the transition rule: seed first, then (|a|, |b|) after a
\* state with a negative component, None after b = 0, (b, a) after a < b,
\* (b, a mod b) otherwise; sign normalization happens only directly after
\* the seed and a swap is never followed by a swap.
C13_TransitionRule == [][C13_Step]_vars

\* C13, on the seeds whose magnitude the type can hold: there every call
\* follows the transition rule.
C13_TransitionRuleRepresentable ==
    [][(in_a # MIN /\ in_b # MIN) => C13_Step]_vars

\* The safety half of C14: the first state yielded has a >= b >= 0 and
\* coefficients (1, 0, 0, 1, 0); from one yielded state to the next b
\* strictly decreases and stays >= 0; None follows a state with b = 0.
C14_FirstState ==
    (eret.tag # "Panic" /\ eit.tag # "Panic") =>
        LET first == IF eret = NotCalled THEN eit
                     ELSE GcdExtendedIteration_new(in_a, in_b)
        IN  /\ first.tag = "Some"
            /\ first.a >= first.b /\ first.b >= 0
            /\ <<first.a0, first.a1, first.b0, first.b1, first.q>> =
                 <<1, 0, 0, 1, 0>>

C14_Step ==
    /\ (eret = NotCalled) => eret' = eit
    /\ (eret.tag = "Some" /\ eret'.tag = "Some") =>
         (eret'.b < eret.b /\ eret'.b >= 0)
    /\ (eret.tag = "Some" /\ eret' = None) => eret.b = 0
    /\ eret'.tag # "Panic"

\* C14 (as claimed): for every seed of the type the extended iterator's
\* first state has a >= b >= 0 and (a0, a1, b0, b1, q) = (1, 0, 0, 1, 0), b
\* strictly decreases and stays >= 0 between consecutive yielded states, and
\* a consumer that keeps calling next is eventually handed None, the last
\* yielded state having b = 0.
C14_OrderedAndTerminates ==
    /\ [](eit.tag # "Panic" /\ C14_FirstState)
    /\ [][C14_Step]_vars
    /\ <>(eret = None)

\* C14, on the seeds whose magnitude the type can hold: there the extended
\* iterator starts ordered, b strictly decreases and next ends with None.
C14_OrderedAndTerminatesRepresentable ==
    /\ []((in_a # MIN /\ in_b # MIN) => (eit.tag # "Panic" /\ C14_FirstState))
    /\ [][(in_a # MIN /\ in_b # MIN) => C14_Step]_vars
    /\ (in_a # MIN /\ in_b # MIN) => <>(eret = None)

\* C15: for all a, b other than the minimum value, the last state GcdIterator
\* yields before None is exactly (gcd(a, b), 0); the seeds (0, 0), (0, b)
\* and (a, 0) are among the cases.
C15_LastStateIsGcd ==
    (in_a # MIN /\ in_b # MIN /\ gret.tag = "Some" /\ git = None) =>
        /\ gcd(in_a, in_b).tag = "Ok"
        /\ gret = GcdIteration(gcd(in_a, in_b).val, 0)

C15_Witness ==
    /\ in_a = -9 /\ in_b = -12
    /\ git = None /\ gret = GcdIteration(3, 0)
    /\ gcd(in_a, in_b) = Ok(3)

C16_Step ==
    /\ (gret.tag = "Some" /\ gret.a >= 0 /\ gret.b >= 0 /\ gret'.tag = "Some") =>
         gret'.b < gret.b
    /\ (gret.tag = "Some" /\ gret' = None) => gret.b = 0
    /\ (gret = NotCalled) => gret' # None

\* C16: of two consecutive states GcdIterator yields, the first having
\* a >= 0 and b >= 0, the second has the strictly smaller b (swap steps
\* included), and None is returned only after a state with b = 0.
C16_StrictDecrease == [][C16_Step]_vars

C16_Witness ==
    /\ in_a = 4 /\ in_b = 6
    /\ gret = GcdIteration(6, 4) /\ git = GcdIteration(4, 2)

C17_AbsorbingStep ==
    /\ gret = None => (gret' = None /\ git' = git)
    /\ eret = None => (eret' = None /\ eit' = eit)
    /\ git = None => git' = None
    /\ eit = None => eit' = None

\* C17 (as claimed): once next has returned None on either iterator, every
\* later call returns None and leaves the iterator unchanged, and once a
\* state with b = 0 has been yielded the iterator is exhausted: the call
\* after it yields no state.  Stated on the seeds other than the minimum
\* value.
C17_Absorbing ==
    /\ [][C17_AbsorbingStep]_vars
    /\ []((in_a # MIN /\ in_b # MIN) =>
            /\ (gret.tag = "Some" /\ gret.b = 0) => git = None
            /\ (eret.tag = "Some" /\ eret.b = 0) => eit = None)

\* C17 (amended): exhaustion is absorbing on both iterators, and the
\* iterator is exhausted once it has yielded a state with b = 0 whose a is
\* not negative; GcdIterator yields a seed (a, 0) with a < 0 and then its
\* normalization (|a|, 0) before it returns None.
C17_AbsorbingAfterNonNegative ==
    /\ [][C17_AbsorbingStep]_vars
    /\ [](/\ (gret.tag = "Some" /\ gret.a >= 0 /\ gret.b = 0) => git = None
          /\ (eret.tag = "Some" /\ eret.b = 0) => eit = None)

C17_Witness ==
    /\ in_a = -3 /\ in_b = 0
    /\ gret = None /\ git = None
    /\ eret = None /\ eit = None

\* C18: for all a > b > 0 the last state s yielded by
\* GcdExtendedIterator::new(a, b) has (s.a, s.a0, s.b0, s.a1, s.b1) equal to
\* (r.gcd, r.x0, r.y0, r.x1, r.y1), where r = gcd_extended(a, b).
C18_IteratorAgreesWithFunction ==
    (in_a > in_b /\ in_b > 0) =>
        /\ eit.tag # "Panic" /\ eret.tag # "Panic"
        /\ (eret.tag = "Some" /\ eit = None) =>
             LET r == gcd_extended(in_a, in_b)
             IN  /\ r.tag = "Ok"
                 /\ <<eret.a, eret.a0, eret.b0, eret.a1, eret.b1>> =
                      <<r.gcd, r.x0, r.y0, r.x1, r.y1>>

C18_Witness ==
    /\ in_a = 12 /\ in_b = 9
    /\ eit = None /\ eret.tag = "Some"
    /\ <<eret.a, eret.b>> = <<3, 0>>
    /\ <<eret.a0, eret.b0>> = <<1, -1>>
    /\ gcd_extended(in_a, in_b).gcd = 3

\* C19: for all nonzero a, b whose magnitude the type can hold,
\* r = gcd_extended(a, b) has |r.x1| = |b| / r.gcd and |r.y1| = |a| / r.gcd,
\* and the pairs (x0 + k*x1, y0 + k*y1), k an integer, are the solutions
\* (x, y) of x*a + y*b = r.gcd: every such pair is a solution, and every
\* solution within the type is such a pair (brute-force scan of the type).
C19_MinimalKernel ==
    (call = "gcd_extended" /\ in_a # 0 /\ in_b # 0
        /\ in_a # MIN /\ in_b # MIN) =>
        /\ ret.tag = "Ok"
        /\ ret.gcd > 0
        /\ Mag(ret.x1) * ret.gcd = Mag(in_b)
        /\ Mag(ret.y1) * ret.gcd = Mag(in_a)
        /\ \A k \in (2 * MIN)..(2 * MAX) :
             (ret.x0 + k * ret.x1) * in_a + (ret.y0 + k * ret.y1) * in_b = ret.gcd
        /\ \A x \in I64 : \A y \in I64 :
             (x * in_a + y * in_b = ret.gcd) =>
                \E k \in (2 * MIN)..(2 * MAX) :
                    /\ x = ret.x0 + k * ret.x1
                    /\ y = ret.y0 + k * ret.y1

C19_Witness ==
    /\ call = "gcd_extended" /\ in_a = -6 /\ in_b = 10
    /\ ret.tag = "Ok" /\ ret.gcd = 2
    /\ <<ret.x1, ret.y1>> = <<5, 3>>
    /\ <<ret.x0 - ret.x1, ret.y0 - ret.y1>> = <<-7, -4>>
    /\ -7 * in_a + -4 * in_b = 2

====
